---- MODULE Spec2Model ----
(***************************************************************************)
(* Client-side session and data-synchronisation core of the MovieRec      *)
(* front end (frontend/src/App.jsx): token lifecycle, initial load,       *)
(* debounced search, genre filter, rating, watchlist, view resolution.    *)
(*                                                                         *)
(* React state is one variable per useState cell.  A handler is modelled  *)
(* as a function from the state record to the state record; Commit then   *)
(* runs the effects whose dependencies changed and assigns the variables. *)
(***************************************************************************)
EXTENDS Bags, FiniteSets, Integers, Sequences, TLC

VARIABLES
  ls,               \* localStorage['accessToken'] (NULL when absent)
  token, user, page,
  recommendations, userRatings, watchlist, watchlistIds,
  searchQuery, searchResults, selectedGenre, genreResults,
  isLoading, message,
  searchTimer,      \* pending debounce timers of the search effect (their captured query)
  msgTimers,        \* pending 5 s message-clearing timers of showMessage
  inflight,         \* bag of single requests awaiting their response
  loads,            \* bag of Promise.all batches of fetchInitialData
  legacy,           \* the earlier client (unnamed/part_000): its state, timers and requests
  lastRated,        \* history: per movie, the score of the latest handleRateMovie call that posted (0: none)
  userDone          \* environment: the user has stopped giving input

vars == << ls, token, user, page, recommendations, userRatings, watchlist,
           watchlistIds, searchQuery, searchResults, selectedGenre,
           genreResults, isLoading, message, searchTimer, msgTimers,
           inflight, loads, legacy, lastRated, userDone >>

----------------------------------------------------------------------------
(* Bounds *)

NumTokens    == 2   \* distinct access tokens the server may issue
NumMovies    == 2   \* movie ids 1..NumMovies
MaxScore     == 2   \* scores 1..MaxScore
MaxInflight  == 2   \* requests/batches a user action may add to
MaxMsgTimers == 2   \* pending message timers
MaxWatchlist == 2   \* entries the server keeps in a watchlist
MaxRatings   == 3   \* entries of a ratings response

----------------------------------------------------------------------------
(* Values *)

NULL    == 0                       \* null token / null user
NoGenre == "null"                  \* selectedGenre === null
Tokens  == 1..NumTokens
Movies  == 1..NumMovies
Scores  == 1..MaxScore
Genres  == {"Action", "Drama"}

\* texts of the search box: blank ones, and a word being typed
Queries == {<<>>, <<" ">>, <<"M">>, <<"M", "a">>}

Endpoints == {"recommendations", "ratings", "watchlist", "me"}

Unauthorized == "401"     \* error.response.status === 401
OtherFailure == "other"   \* any other status, or no response at all
Failures     == {Unauthorized, OtherFailure}

NoMessage == [type |-> "", text |-> ""]

MsgLoadFailed      == "Could not load movie data. Please try again."
MsgSessionExpired  == "Session expired. Please log in again."
MsgSearchFailed    == "Could not perform search."
MsgInvalidLogin    == "Invalid login credentials."
MsgRegisterOk      == "Registration successful! Please login."
MsgRegisterFailed  == "Registration failed. Please try again."
MsgLoginToRate     == "Please log in to rate movies."
MsgRated           == "Rating submitted!"
MsgRateFailed      == "Could not submit rating."
MsgAddFailed       == "Could not add to watchlist."
MsgRemoveFailed    == "Could not remove from watchlist."
MsgGenreFailed(g)  == "Could not load movies for " \o g \o "."
MsgAdded(title)    == title \o " added to watchlist!"
MsgRemoved(title)  == title \o " removed from watchlist."

\* error.response?.data?.detail: absent, or the server's text
NoDetail == ""
Details  == {NoDetail, "detail from server"}

\* A movie as the server returns it.  q / genre / owner record what the server
\* computed it for: the search text it matched, the genre it was listed
\* under, the user whose session asked for it.
Mv(i, q, g, o) == [id |-> i, q |-> q, genre |-> g, owner |-> o]

MovieTitle(m) == "Movie " \o ToString(m)

\* Server replies
RecsReplies(a)      == { << Mv(1, <<>>, NoGenre, a) >> }
RatingsReplies(a)   == { << [movie_id |-> 1, score |-> 1] >> }
WatchlistEntry(m, a) == [movie |-> Mv(m, <<>>, NoGenre, a)]
WatchlistReplies(a) == { <<>>, << WatchlistEntry(1, a) >> }
ProfileReply(a)     == a
SearchReplies(q, a) == { <<>>, << Mv(1, q, NoGenre, a) >> }
GenreReplies(g, a)  == { << Mv(2, <<>>, g, a) >> }

----------------------------------------------------------------------------
(* String.prototype.trim on a sequence of characters *)

RECURSIVE TrimLeft(_)
TrimLeft(s) == IF s # <<>> /\ Head(s) = " " THEN TrimLeft(Tail(s)) ELSE s

RECURSIVE TrimRight(_)
TrimRight(s) ==
  IF s # <<>> /\ s[Len(s)] = " " THEN TrimRight(SubSeq(s, 1, Len(s) - 1)) ELSE s

trim(s) == TrimRight(TrimLeft(s))

\* prev.filter(item => item.movie.id !== movieId)
RECURSIVE withoutMovie(_, _)
withoutMovie(list, m) ==
  IF list = <<>> THEN <<>>
  ELSE IF Head(list).movie.id # m THEN <<Head(list)>> \o withoutMovie(Tail(list), m)
       ELSE withoutMovie(Tail(list), m)

\* the reduce keeping the first score of a movie instead of the last
RECURSIVE ratingsMap_firstWins(_, _)
ratingsMap_firstWins(acc, s) ==
  IF s = <<>> THEN acc
  ELSE ratingsMap_firstWins(
         [k \in (DOMAIN acc) \cup {Head(s).movie_id} |->
            IF k \in DOMAIN acc THEN acc[k] ELSE Head(s).score],
         Tail(s))

\* ratingsResponse.data.reduce((acc, r) => { acc[r.movie_id] = r.score }, {})
RECURSIVE ratingsMap(_, _)
ratingsMap(acc, s) ==
  IF s = <<>> THEN acc
  ELSE ratingsMap([k \in (DOMAIN acc) \cup {Head(s).movie_id} |->
                     IF k = Head(s).movie_id THEN Head(s).score ELSE acc[k]],
                  Tail(s))

EmptyMap == [k \in {} |-> 0]

\* new Set(list.map(item => item.movie.id))
wlIds(list) == {list[i].movie.id : i \in DOMAIN list}

----------------------------------------------------------------------------
(* The state as a record, so that handlers compose *)

Cur ==
  [ ls |-> ls, token |-> token, user |-> user, page |-> page,
    recommendations |-> recommendations, userRatings |-> userRatings,
    watchlist |-> watchlist, watchlistIds |-> watchlistIds,
    searchQuery |-> searchQuery, searchResults |-> searchResults,
    selectedGenre |-> selectedGenre, genreResults |-> genreResults,
    isLoading |-> isLoading, message |-> message,
    searchTimer |-> searchTimer, msgTimers |-> msgTimers,
    inflight |-> inflight, loads |-> loads ]

\* the request interceptor left out: no header on any request
Authorization_none(s) == NULL

\* The request interceptor: the token persisted when the request is sent, or
\* no Authorization header (NULL)
Authorization(s) == s.ls

\* A request on the wire.  auth is what the request interceptor attached.
Req(kind, s) ==
  [ kind |-> kind, q |-> <<>>, genre |-> NoGenre, movie |-> 0, score |-> 0,
    title |-> "", auth |-> Authorization(s) ]

Send(s, r) == [s EXCEPT !.inflight = @ (+) SetToBag({r})]

Load == BagCardinality(inflight) + BagCardinality(loads)

Recv(s, r) == [s EXCEPT !.inflight = @ (-) SetToBag({r})]

----------------------------------------------------------------------------
(* Utility functions and handlers, as state transformers *)

showMessage(s, type, text) ==
  [s EXCEPT !.message = [type |-> type, text |-> text], !.msgTimers = @ + 1]

\* handleLogout with localStorage.removeItem left out
handleLogout_keepStorage(s) == [s EXCEPT !.token = NULL]

handleLogout(s) == [s EXCEPT !.ls = NULL, !.token = NULL]

fetchInitialData(s) ==
  IF s.ls = NULL THEN handleLogout(s)
  ELSE [s EXCEPT !.isLoading = TRUE,
                 !.message = NoMessage,
                 !.loads = @ (+) SetToBag({[auth |-> Authorization(s), pending |-> Endpoints,
                                            rejected |-> FALSE]})]

\* try-block of fetchInitialData after Promise.all resolved
applyInitialData(s, recs, ratings, wl, profile) ==
  [s EXCEPT !.recommendations = recs,
            !.userRatings = ratingsMap(EmptyMap, ratings),
            !.watchlist = wl,
            !.watchlistIds = wlIds(wl),
            !.user = profile,
            !.page = "app",
            !.isLoading = FALSE]

\* the catch of fetchInitialData reached with the recommendations already stored
failInitialData_partial(s, status) ==
  LET s1 == showMessage(s, "error", MsgLoadFailed)
      s2 == IF status = Unauthorized
            THEN handleLogout(showMessage(s1, "error", MsgSessionExpired))
            ELSE s1
  IN [s2 EXCEPT !.isLoading = FALSE,
                !.recommendations = CHOOSE r \in RecsReplies(s.ls) : TRUE]

\* catch/finally of fetchInitialData
failInitialData(s, status) ==
  LET s1 == showMessage(s, "error", MsgLoadFailed)
      s2 == IF status = Unauthorized
            THEN handleLogout(showMessage(s1, "error", MsgSessionExpired))
            ELSE s1
  IN [s2 EXCEPT !.isLoading = FALSE]

----------------------------------------------------------------------------
(* Effects.  c is the render whose closure the effect runs in, p the      *)
(* previous render, s the state being accumulated by the setters.         *)

\* useEffect(..., [token])
tokenEffect(c, s) ==
  IF c.token = NULL
  THEN [s EXCEPT !.user = NULL, !.recommendations = <<>>,
                 !.userRatings = EmptyMap, !.watchlist = <<>>,
                 !.watchlistIds = {}, !.page = "login"]
  ELSE s

\* the search effect with its cleanup (clearTimeout) left out
searchEffect_noCleanup(p, c, s) ==
  IF trim(c.searchQuery) = <<>> THEN [s EXCEPT !.searchResults = <<>>]
  ELSE IF c.token = NULL THEN s
  ELSE [s EXCEPT !.searchTimer = @ \cup {c.searchQuery}]

\* the search effect with its test of the token left out
searchEffect_noTokenTest(p, c, s) ==
  LET s0 == [s EXCEPT !.searchTimer = @ \ {p.searchQuery}]
  IN IF trim(c.searchQuery) = <<>> THEN [s0 EXCEPT !.searchResults = <<>>]
     ELSE [s0 EXCEPT !.searchTimer = @ \cup {c.searchQuery}]

\* useEffect(..., [searchQuery, token]); the cleanup of the previous run first
searchEffect(p, c, s) ==
  LET s0 == [s EXCEPT !.searchTimer = @ \ {p.searchQuery}]
  IN IF trim(c.searchQuery) = <<>> THEN [s0 EXCEPT !.searchResults = <<>>]
     ELSE IF c.token = NULL THEN s0
     ELSE [s0 EXCEPT !.searchTimer = @ \cup {c.searchQuery}]

\* useEffect(..., [selectedGenre, token]) with fetchGenreMovies up to its await
genreEffect(c, s) ==
  IF c.selectedGenre = NoGenre THEN [s EXCEPT !.genreResults = <<>>]
  ELSE IF c.token = NULL THEN s
  ELSE Send([s EXCEPT !.isLoading = TRUE, !.searchQuery = <<>>,
                      !.searchResults = <<>>],
            [Req("genre", s) EXCEPT !.genre = c.selectedGenre])

(* The earlier client, unnamed/part_000: one user, no session *)

LegacyRecsReplies    == {<<>>, << 1, 2 >>}          \* movies by id
LegacyRatingsReplies == {<<>>, << [movie_id |-> 1, score |-> 1] >>}
LegacySearchReplies  == {<<>>, << 1 >>}

LegacyReq(kind, q, m, sc) == [kind |-> kind, q |-> q, movie |-> m, score |-> sc]
LegacySend(l, r) == [l EXCEPT !.inflight = @ (+) SetToBag({r})]
LegacyRecv(l, r) == [l EXCEPT !.inflight = @ (-) SetToBag({r})]

\* useState initialisers, then the two effects of the first render
LegacyMounted ==
  [ recommendations |-> <<>>, userRatings |-> EmptyMap,
    selectedMovie |-> NULL, searchQuery |-> <<>>, searchResults |-> <<>>,
    isLoading |-> TRUE, errorMessage |-> "",
    searchTimer |-> {}, refreshTimers |-> 0,
    inflight |-> SetToBag({LegacyReq("initRecs", <<>>, NULL, NULL)}) ]

\* fetchRecommendations with the loading flag raised for the refresh
fetchRecommendations_loading(l) ==
  LegacySend([l EXCEPT !.errorMessage = "", !.isLoading = TRUE],
             LegacyReq("refresh", <<>>, NULL, NULL))

\* fetchRecommendations up to its await
fetchRecommendations(l) ==
  LegacySend([l EXCEPT !.errorMessage = ""], LegacyReq("refresh", <<>>, NULL, NULL))

\* moviesToShow
moviesToShow(l) == IF trim(l.searchQuery) # <<>> THEN l.searchResults ELSE l.recommendations

\* The effects of the render after a handler, then of the render after those
RunEffects(p, s) ==
  LET dT == s.token # p.token
      dQ == s.searchQuery # p.searchQuery
      dG == s.selectedGenre # p.selectedGenre
      a1 == IF dT THEN tokenEffect(s, s) ELSE s
      a2 == IF dQ \/ dT THEN searchEffect(p, s, a1) ELSE a1
      a3 == IF dG \/ dT THEN genreEffect(s, a2) ELSE a2
  IN IF a3.searchQuery # s.searchQuery THEN searchEffect(s, a3, a3) ELSE a3

\* the cells, timers and requests of the client become those of s
AssignApp(s) ==
  /\ ls' = s.ls
  /\ token' = s.token
  /\ user' = s.user
  /\ page' = s.page
  /\ recommendations' = s.recommendations
  /\ userRatings' = s.userRatings
  /\ watchlist' = s.watchlist
  /\ watchlistIds' = s.watchlistIds
  /\ searchQuery' = s.searchQuery
  /\ searchResults' = s.searchResults
  /\ selectedGenre' = s.selectedGenre
  /\ genreResults' = s.genreResults
  /\ isLoading' = s.isLoading
  /\ message' = s.message
  /\ searchTimer' = s.searchTimer
  /\ msgTimers' = s.msgTimers
  /\ inflight' = s.inflight
  /\ loads' = s.loads

\* the client took a step; the earlier client and the history did not
Assign(s) ==
  /\ AssignApp(s)
  /\ UNCHANGED << legacy, lastRated, userDone >>

\* A handler took Cur to s: run the effects and publish the result
Commit(s) ==
  LET f == RunEffects(Cur, s)
  IN /\ f.msgTimers <= MaxMsgTimers
     /\ Assign(f)

----------------------------------------------------------------------------
(* Construction: useState initialisers, then the effects of the first render *)

Fresh(l) ==
  [ ls |-> l, token |-> l, user |-> NULL,
    page |-> IF l # NULL THEN "app" ELSE "login",
    recommendations |-> <<>>, userRatings |-> EmptyMap,
    watchlist |-> <<>>, watchlistIds |-> {},
    searchQuery |-> <<>>, searchResults |-> <<>>,
    selectedGenre |-> NoGenre, genreResults |-> <<>>,
    isLoading |-> FALSE, message |-> NoMessage,
    searchTimer |-> {}, msgTimers |-> 0,
    inflight |-> EmptyBag, loads |-> EmptyBag ]

\* mount effect
mountEffect(s) ==
  IF s.ls # NULL
  THEN fetchInitialData([s EXCEPT !.token = s.ls, !.page = "app"])
  ELSE [s EXCEPT !.user = NULL, !.recommendations = <<>>,
                 !.userRatings = EmptyMap, !.watchlist = <<>>,
                 !.watchlistIds = {}, !.token = NULL, !.page = "login"]

Mounted(l) ==
  LET c  == Fresh(l)
      a1 == mountEffect(c)
      a2 == tokenEffect(c, a1)
      a3 == searchEffect(c, c, a2)
  IN genreEffect(c, a3)

StateIs(s) ==
  /\ ls = s.ls
  /\ token = s.token
  /\ user = s.user
  /\ page = s.page
  /\ recommendations = s.recommendations
  /\ userRatings = s.userRatings
  /\ watchlist = s.watchlist
  /\ watchlistIds = s.watchlistIds
  /\ searchQuery = s.searchQuery
  /\ searchResults = s.searchResults
  /\ selectedGenre = s.selectedGenre
  /\ genreResults = s.genreResults
  /\ isLoading = s.isLoading
  /\ message = s.message
  /\ searchTimer = s.searchTimer
  /\ msgTimers = s.msgTimers
  /\ inflight = s.inflight
  /\ loads = s.loads
  /\ legacy = LegacyMounted
  /\ lastRated = [m \in Movies |-> 0]
  /\ userDone = FALSE

Init == \E l \in {NULL} \cup Tokens : StateIs(Mounted(l))

\* The state once the initial load of a mount with token l has succeeded
Loaded(l, recs, ratings, wl) ==
  applyInitialData([Mounted(l) EXCEPT !.loads = EmptyBag],
                   recs, ratings, wl, ProfileReply(l))

InitLoaded ==
  \E l \in Tokens :
    \E recs \in RecsReplies(l), ratings \in RatingsReplies(l), wl \in WatchlistReplies(l) :
      StateIs(Loaded(l, recs, ratings, wl))

\* The page is reloaded: storage survives; state, timers and requests do not
Reload == Assign(Mounted(ls))

----------------------------------------------------------------------------
(* What the render shows, which decides the handlers a user can reach *)

LoginShown    == token = NULL /\ page # "register"
RegisterShown == ~LoginShown /\ page = "register"
AppShown      == ~LoginShown /\ ~RegisterShown /\ page = "app" /\ token # NULL

\* the first branch with its test of searchQuery left out
searchHit_noQueryTest(s) == s.searchResults # <<>>

\* moviesToDisplay / listTitle
searchHit(s)   == s.searchQuery # <<>> /\ s.searchResults # <<>>
searchMiss(s)  == ~searchHit(s) /\ s.searchQuery # <<>> /\ ~s.isLoading
genreBranch(s) == ~searchHit(s) /\ ~searchMiss(s) /\ s.selectedGenre # NoGenre

\* moviesToDisplay with the genre branch tested first
moviesToDisplayOf_genreFirst(s) ==
  IF s.selectedGenre # NoGenre THEN s.genreResults
  ELSE IF searchHit(s) THEN s.searchResults
  ELSE IF searchMiss(s) THEN <<>>
  ELSE s.recommendations

moviesToDisplayOf(s) ==
  IF searchHit(s) THEN s.searchResults
  ELSE IF searchMiss(s) THEN <<>>
  ELSE IF genreBranch(s) THEN s.genreResults
  ELSE s.recommendations

listTitleOf(s) ==
  IF searchHit(s) THEN << "Search Results for \"" >> \o s.searchQuery \o << "\"" >>
  ELSE IF searchMiss(s) THEN << "No results found for \"" >> \o s.searchQuery \o << "\"" >>
  ELSE IF genreBranch(s) THEN << "Movies in ", s.selectedGenre >>
  ELSE << "Recommended For You" >>

moviesToDisplay == moviesToDisplayOf(Cur)
listTitle       == listTitleOf(Cur)

----------------------------------------------------------------------------
(* Session: login, register, logout *)

NavigateRegister ==
  /\ LoginShown
  /\ Commit([Cur EXCEPT !.page = "register"])

NavigateLogin ==
  /\ RegisterShown
  /\ Commit([Cur EXCEPT !.page = "login"])

\* handleLogin up to its await (Login.handleSubmit refuses while loading)
HandleLogin ==
  /\ LoginShown
  /\ ~isLoading
  /\ Load < MaxInflight
  /\ Commit(Send([Cur EXCEPT !.isLoading = TRUE, !.message = NoMessage],
                 Req("login", Cur)))

\* loginOk with localStorage.setItem left out
loginOk_notPersisted(s, t) ==
  LET s1 == [s EXCEPT !.token = t, !.page = "app"]
      s2 == fetchInitialData(s1)
  IN [s2 EXCEPT !.isLoading = FALSE]

loginOk(s, t) ==
  LET s1 == [s EXCEPT !.ls = t, !.token = t, !.page = "app"]
      s2 == fetchInitialData(s1)
  IN [s2 EXCEPT !.isLoading = FALSE]

\* loginFailed with the removal of the token left out
loginFailed_keepToken(s, d) ==
  LET s1 == showMessage(s, "error", IF d # NoDetail THEN d ELSE MsgInvalidLogin)
  IN [s1 EXCEPT !.isLoading = FALSE]

loginFailed(s, d) ==
  LET s1 == showMessage(s, "error", IF d # NoDetail THEN d ELSE MsgInvalidLogin)
  IN [s1 EXCEPT !.ls = NULL, !.token = NULL, !.user = NULL, !.isLoading = FALSE]

LoginOk(r, t) ==
  /\ r.kind = "login"
  /\ Commit(loginOk(Recv(Cur, r), t))

LoginFailed(r, d) ==
  /\ r.kind = "login"
  /\ Commit(loginFailed(Recv(Cur, r), d))

\* password.length < 4 in Register.handleSubmit
MinPassword == 4

\* the password field of the Register form, by its length
PasswordLengths == {0, MinPassword - 1, MinPassword, MinPassword + 1}

\* handleRegister up to its await
handleRegister(s) ==
  Send([s EXCEPT !.isLoading = TRUE, !.message = NoMessage], Req("register", s))

\* Register.handleSubmit with the password length not tested
registerSubmit_noLengthTest(s, pw) ==
  IF ~s.isLoading THEN handleRegister(s) ELSE s

\* Register.handleSubmit: the alert for a short password changes no state
registerSubmit(s, pw) ==
  IF pw < MinPassword THEN s
  ELSE IF ~s.isLoading THEN handleRegister(s)
  ELSE s

\* the Register form is submitted with a password of length pw
HandleRegister(pw) ==
  /\ RegisterShown
  /\ Load < MaxInflight
  /\ Commit(registerSubmit(Cur, pw))

registerOk(s) ==
  [showMessage(s, "success", MsgRegisterOk) EXCEPT !.page = "login", !.isLoading = FALSE]

registerFailed(s, d) ==
  [showMessage(s, "error", IF d # NoDetail THEN d ELSE MsgRegisterFailed)
     EXCEPT !.isLoading = FALSE]

RegisterOk(r) ==
  /\ r.kind = "register"
  /\ Commit(registerOk(Recv(Cur, r)))

RegisterFailed(r, d) ==
  /\ r.kind = "register"
  /\ Commit(registerFailed(Recv(Cur, r), d))

\* the Logout button
HandleLogout ==
  /\ AppShown
  /\ Commit(handleLogout(Cur))

----------------------------------------------------------------------------
(* Initial load: the four responses of one Promise.all batch *)

settle(b, e) == [b EXCEPT !.pending = @ \ {e}]

replaceLoad(s, b, nb) ==
  [s EXCEPT !.loads = IF nb.pending = {} THEN @ (-) SetToBag({b})
                      ELSE (@ (-) SetToBag({b})) (+) SetToBag({nb})]

\* LoadOk applying the recommendations response as soon as it arrives
LoadOk_onArrival(b, e) ==
  /\ e \in b.pending
  /\ IF b.rejected \/ b.pending # {e}
     THEN \E recs \in RecsReplies(b.auth) :
            Commit([replaceLoad(Cur, b, settle(b, e))
                      EXCEPT !.recommendations =
                               IF e = "recommendations" THEN recs ELSE @])
     ELSE \E recs \in RecsReplies(b.auth), ratings \in RatingsReplies(b.auth),
             wl \in WatchlistReplies(b.auth) :
            Commit(applyInitialData(replaceLoad(Cur, b, settle(b, e)),
                                    recs, ratings, wl, ProfileReply(b.auth)))

\* a 2xx response of request e of batch b
LoadOk(b, e) ==
  /\ e \in b.pending
  /\ IF b.rejected \/ b.pending # {e}
     THEN Commit(replaceLoad(Cur, b, settle(b, e)))
     ELSE \E recs \in RecsReplies(b.auth), ratings \in RatingsReplies(b.auth),
             wl \in WatchlistReplies(b.auth) :
            Commit(applyInitialData(replaceLoad(Cur, b, settle(b, e)),
                                    recs, ratings, wl, ProfileReply(b.auth)))

\* a failed response of request e of batch b: the first one rejects Promise.all
LoadFailed(b, e, status) ==
  /\ e \in b.pending
  /\ IF b.rejected
     THEN Commit(replaceLoad(Cur, b, settle(b, e)))
     ELSE Commit(failInitialData(
                   replaceLoad(Cur, b, [settle(b, e) EXCEPT !.rejected = TRUE]),
                   status))

----------------------------------------------------------------------------
(* Search *)

handleSearchChange(s, v) == [s EXCEPT !.searchQuery = v]

HandleSearchChange(v) ==
  /\ AppShown
  /\ v # searchQuery
  /\ Commit(handleSearchChange(Cur, v))

\* the setTimeout callback of the search effect, up to its await
searchTimerFired(s, q) ==
  Send([s EXCEPT !.searchTimer = @ \ {q}, !.isLoading = TRUE,
                 !.selectedGenre = NoGenre, !.genreResults = <<>>],
       [Req("search", s) EXCEPT !.q = q])

SearchTimerFire(q) ==
  /\ q \in searchTimer
  /\ Load < MaxInflight
  /\ Commit(searchTimerFired(Cur, q))

\* the search response stored as the recommendations as well
searchOk_intoRecommendations(s, data) ==
  [s EXCEPT !.searchResults = data, !.recommendations = data, !.isLoading = FALSE]

searchOk(s, data) == [s EXCEPT !.searchResults = data, !.isLoading = FALSE]

searchFailed(s, status) ==
  LET s1 == showMessage(s, "error", MsgSearchFailed)
      s2 == IF status = Unauthorized THEN handleLogout(s1) ELSE s1
  IN [s2 EXCEPT !.isLoading = FALSE]

SearchOk(r, data) ==
  /\ r.kind = "search"
  /\ Commit(searchOk(Recv(Cur, r), data))

SearchFailed(r, status) ==
  /\ r.kind = "search"
  /\ Commit(searchFailed(Recv(Cur, r), status))

----------------------------------------------------------------------------
(* Genre filter *)

handleGenreSelect(s, g) ==
  IF s.selectedGenre = g THEN [s EXCEPT !.selectedGenre = NoGenre]
  ELSE [s EXCEPT !.selectedGenre = g]

HandleGenreSelect(g) ==
  /\ AppShown
  /\ Load < MaxInflight
  /\ Commit(handleGenreSelect(Cur, g))

\* the Clear Filter button
ClearFilter ==
  /\ AppShown
  /\ selectedGenre # NoGenre
  /\ Commit([Cur EXCEPT !.selectedGenre = NoGenre])

\* the genre response stored, the finally of fetchGenreMovies left out
genreOk_noFinally(s, data) == [s EXCEPT !.genreResults = data]

genreOk(s, data) == [s EXCEPT !.genreResults = data, !.isLoading = FALSE]

genreFailed(s, g, status) ==
  LET s1 == showMessage(s, "error", MsgGenreFailed(g))
      s2 == IF status = Unauthorized THEN handleLogout(s1) ELSE s1
  IN [s2 EXCEPT !.isLoading = FALSE]

GenreOk(r, data) ==
  /\ r.kind = "genre"
  /\ Commit(genreOk(Recv(Cur, r), data))

GenreFailed(r, status) ==
  /\ r.kind = "genre"
  /\ Commit(genreFailed(Recv(Cur, r), r.genre, status))

----------------------------------------------------------------------------
(* Rating *)

\* handleRateMovie with its test of the token left out
handleRateMovie_noTokenTest(s, m, sc) ==
  Send([s EXCEPT !.message = NoMessage],
       [Req("rate", s) EXCEPT !.movie = m, !.score = sc])

\* handleRateMovie not repeating a request that is already on the wire
handleRateMovie_dedup(s, m, sc) ==
  IF s.token = NULL THEN showMessage(s, "error", MsgLoginToRate)
  ELSE IF BagIn([Req("rate", s) EXCEPT !.movie = m, !.score = sc], s.inflight)
       THEN [s EXCEPT !.message = NoMessage]
       ELSE Send([s EXCEPT !.message = NoMessage],
                 [Req("rate", s) EXCEPT !.movie = m, !.score = sc])

\* handleRateMovie storing the score before the POST is answered
handleRateMovie_optimistic(s, m, sc) ==
  IF s.token = NULL THEN showMessage(s, "error", MsgLoginToRate)
  ELSE Send([s EXCEPT !.message = NoMessage,
                      !.userRatings = [k \in (DOMAIN @) \cup {m} |->
                                         IF k = m THEN sc ELSE @[k]]],
            [Req("rate", s) EXCEPT !.movie = m, !.score = sc])

\* handleRateMovie up to its await
handleRateMovie(s, m, sc) ==
  IF s.token = NULL THEN showMessage(s, "error", MsgLoginToRate)
  ELSE Send([s EXCEPT !.message = NoMessage],
            [Req("rate", s) EXCEPT !.movie = m, !.score = sc])

HandleRateMovie(m, sc) ==
  /\ AppShown
  /\ Load < MaxInflight
  /\ Commit(handleRateMovie(Cur, m, sc))

\* MovieModal.handleRatingChange in a session: handleRateMovie up to its
\* await, the call noted in the history
RateInOrder(m, sc) ==
  /\ AppShown
  /\ Load < MaxInflight
  /\ LET f == RunEffects(Cur, handleRateMovie(Cur, m, sc))
     IN /\ f.msgTimers <= MaxMsgTimers
        /\ AssignApp(f)
  /\ lastRated' = [lastRated EXCEPT ![m] = sc]
  /\ UNCHANGED << legacy, userDone >>

setRating(ratings, m, sc) ==
  [k \in (DOMAIN ratings) \cup {m} |-> IF k = m THEN sc ELSE ratings[k]]

rateOk(s, m, sc) ==
  showMessage([s EXCEPT !.userRatings = setRating(@, m, sc)], "success", MsgRated)

\* mutationFailed logging out on every failure
mutationFailed_alwaysLogout(s, status, d, fallback) ==
  handleLogout(showMessage(s, "error", IF d # NoDetail THEN d ELSE fallback))

mutationFailed(s, status, d, fallback) ==
  LET s1 == showMessage(s, "error", IF d # NoDetail THEN d ELSE fallback)
  IN IF status = Unauthorized THEN handleLogout(s1) ELSE s1

RateOk(r) ==
  /\ r.kind = "rate"
  /\ Commit(rateOk(Recv(Cur, r), r.movie, r.score))

RateFailed(r, status, d) ==
  /\ r.kind = "rate"
  /\ Commit(mutationFailed(Recv(Cur, r), status, d, MsgRateFailed))

----------------------------------------------------------------------------
(* Watchlist *)

pendingAdds == BagCardinality([r \in {x \in DOMAIN inflight : x.kind = "add"} |-> inflight[r]])

\* handleAddToWatchlist updating the id set before its await
handleAddToWatchlist_optimistic(s, m) ==
  IF m = 0 \/ s.token = NULL THEN s
  ELSE Send([s EXCEPT !.message = NoMessage, !.watchlistIds = @ \cup {m}],
            [Req("add", s) EXCEPT !.movie = m])

\* handleAddToWatchlist up to its await
handleAddToWatchlist(s, m) ==
  IF m = 0 \/ s.token = NULL THEN s
  ELSE Send([s EXCEPT !.message = NoMessage], [Req("add", s) EXCEPT !.movie = m])

\* MovieCard / MovieModal offer Add only while the movie is not in watchlistIds
HandleAddToWatchlist(m) ==
  /\ AppShown
  /\ m \notin watchlistIds
  /\ Load < MaxInflight
  /\ Len(watchlist) + pendingAdds < MaxWatchlist
  /\ Commit(handleAddToWatchlist(Cur, m))

\* addOk with the setWatchlistIds call left out
addOk_listOnly(s, m, entry) ==
  showMessage([s EXCEPT !.watchlist = Append(@, entry)],
              "success", MsgAdded(MovieTitle(entry.movie.id)))

addOk(s, m, entry) ==
  showMessage([s EXCEPT !.watchlist = Append(@, entry),
                        !.watchlistIds = @ \cup {m}],
              "success", MsgAdded(MovieTitle(entry.movie.id)))

AddOk(r) ==
  /\ r.kind = "add"
  /\ Commit(addOk(Recv(Cur, r), r.movie, WatchlistEntry(r.movie, r.auth)))

AddFailed(r, status, d) ==
  /\ r.kind = "add"
  /\ Commit(mutationFailed(Recv(Cur, r), status, d, MsgAddFailed))

\* watchlist.find(item => item.movie.id === movieId)?.movie?.title || 'Movie',
\* on the watchlist of the render the handler was created in
titleIn(list, m) == IF m \in wlIds(list) THEN MovieTitle(m) ELSE "Movie"

\* handleRemoveFromWatchlist up to its await
handleRemoveFromWatchlist(s, m) ==
  IF m = 0 \/ s.token = NULL THEN s
  ELSE Send([s EXCEPT !.message = NoMessage],
            [Req("remove", s) EXCEPT !.movie = m, !.title = titleIn(s.watchlist, m)])

\* Remove is offered for movies in watchlistIds and for the watchlist section's cards
HandleRemoveFromWatchlist(m) ==
  /\ AppShown
  /\ \/ m \in watchlistIds
     \/ /\ selectedGenre = NoGenre
        /\ searchQuery = <<>>
        /\ m \in wlIds(watchlist)
  /\ Load < MaxInflight
  /\ Commit(handleRemoveFromWatchlist(Cur, m))

\* removeOk with the setWatchlistIds call left out
removeOk_listOnly(s, m, title) ==
  showMessage([s EXCEPT !.watchlist = withoutMovie(@, m)], "success", MsgRemoved(title))

removeOk(s, m, title) ==
  showMessage([s EXCEPT !.watchlist = withoutMovie(@, m),
                        !.watchlistIds = @ \ {m}],
              "success", MsgRemoved(title))

RemoveOk(r) ==
  /\ r.kind = "remove"
  /\ Commit(removeOk(Recv(Cur, r), r.movie, r.title))

RemoveFailed(r, status, d) ==
  /\ r.kind = "remove"
  /\ Commit(mutationFailed(Recv(Cur, r), status, d, MsgRemoveFailed))

----------------------------------------------------------------------------
(* The timer of showMessage *)

MessageTimerFire ==
  /\ msgTimers > 0
  /\ Commit([Cur EXCEPT !.message = NoMessage, !.msgTimers = @ - 1])

----------------------------------------------------------------------------

(* The earlier client: its handlers, timers and responses *)

LegacyRequests == BagToSet(legacy.inflight)
LegacyLoad == BagCardinality(legacy.inflight) + legacy.refreshTimers

\* the earlier client took a step; the present one did not
LegacyAssign(l) ==
  /\ legacy' = l
  /\ UNCHANGED << ls, token, user, page, recommendations, userRatings, watchlist,
                  watchlistIds, searchQuery, searchResults, selectedGenre,
                  genreResults, isLoading, message, searchTimer, msgTimers,
                  inflight, loads, lastRated, userDone >>

\* mount effect: the recommendations arrived, the ratings are requested
LegacyRecsOk(r, data) ==
  /\ r \in LegacyRequests /\ r.kind = "initRecs"
  /\ LegacyAssign(LegacySend([LegacyRecv(legacy, r) EXCEPT !.recommendations = data],
                             LegacyReq("initRatings", <<>>, NULL, NULL)))

\* mount effect: the ratings arrived; finally
LegacyRatingsOk(r, data) ==
  /\ r \in LegacyRequests /\ r.kind = "initRatings"
  /\ LegacyAssign([LegacyRecv(legacy, r) EXCEPT
                     !.userRatings = ratingsMap(EmptyMap, data),
                     !.isLoading = FALSE])

\* mount effect: catch and finally, for either request
LegacyLoadFailed(r) ==
  /\ r \in LegacyRequests /\ r.kind \in {"initRecs", "initRatings"}
  /\ LegacyAssign([LegacyRecv(legacy, r) EXCEPT
                     !.errorMessage = "Could not fetch data. Is the backend server running?",
                     !.isLoading = FALSE])

\* the search box: setSearchQuery, then the search effect and its cleanup
SetSearchQuery(v) ==
  /\ v # legacy.searchQuery
  /\ LegacyAssign(IF trim(v) = <<>>
                  THEN [legacy EXCEPT !.searchQuery = v, !.searchTimer = {},
                                      !.searchResults = <<>>]
                  ELSE [legacy EXCEPT !.searchQuery = v, !.searchTimer = {v}])

\* the debounce timer fired: fetchSearch up to its await
LegacySearchTimerFire(q) ==
  /\ q \in legacy.searchTimer
  /\ LegacyLoad < MaxInflight
  /\ LegacyAssign(LegacySend([legacy EXCEPT !.searchTimer = {}, !.errorMessage = ""],
                             LegacyReq("search", q, NULL, NULL)))

LegacySearchOk(r, data) ==
  /\ r \in LegacyRequests /\ r.kind = "search"
  /\ LegacyAssign([LegacyRecv(legacy, r) EXCEPT !.searchResults = data])

LegacySearchFailed(r) ==
  /\ r \in LegacyRequests /\ r.kind = "search"
  /\ LegacyAssign([LegacyRecv(legacy, r) EXCEPT
                     !.errorMessage = "Could not fetch search results."])

\* a card of the list is clicked: onMovieSelect={setSelectedMovie}
SetSelectedMovie(m) ==
  /\ ~legacy.isLoading
  /\ \E i \in DOMAIN moviesToShow(legacy) : moviesToShow(legacy)[i] = m
  /\ m # legacy.selectedMovie
  /\ LegacyAssign([legacy EXCEPT !.selectedMovie = m])

\* the modal is closed
LegacyClose ==
  /\ legacy.selectedMovie # NULL
  /\ LegacyAssign([legacy EXCEPT !.selectedMovie = NULL])

\* a star of the modal is clicked: handleRating up to its await
HandleRating(rating) ==
  /\ legacy.selectedMovie # NULL
  /\ LegacyLoad < MaxInflight
  /\ LegacyAssign(LegacySend([legacy EXCEPT !.errorMessage = ""],
                             LegacyReq("rate", <<>>, legacy.selectedMovie, rating)))

\* handleRating after its await: the rating kept, the modal closed, the
\* refresh scheduled one second later
RatingOk(r) ==
  /\ r \in LegacyRequests /\ r.kind = "rate"
  /\ LegacyAssign([LegacyRecv(legacy, r) EXCEPT
                     !.userRatings = setRating(@, r.movie, r.score),
                     !.selectedMovie = NULL,
                     !.refreshTimers = @ + 1])

RatingFailed(r) ==
  /\ r \in LegacyRequests /\ r.kind = "rate"
  /\ LegacyAssign([LegacyRecv(legacy, r) EXCEPT !.errorMessage = "Could not submit rating."])

\* the refresh timer fired
RefreshTimerFire ==
  /\ legacy.refreshTimers > 0
  /\ LegacyAssign(fetchRecommendations([legacy EXCEPT !.refreshTimers = @ - 1]))

RefreshOk(r, data) ==
  /\ r \in LegacyRequests /\ r.kind = "refresh"
  /\ LegacyAssign([LegacyRecv(legacy, r) EXCEPT !.recommendations = data])

RefreshFailed(r) ==
  /\ r \in LegacyRequests /\ r.kind = "refresh"
  /\ LegacyAssign([LegacyRecv(legacy, r) EXCEPT
                     !.errorMessage = "Could not fetch recommendations."])

LegacyNext ==
  \/ \E r \in LegacyRequests : \E data \in LegacyRecsReplies : LegacyRecsOk(r, data)
  \/ \E r \in LegacyRequests : \E data \in LegacyRatingsReplies : LegacyRatingsOk(r, data)
  \/ \E r \in LegacyRequests : LegacyLoadFailed(r)
  \/ \E v \in Queries : SetSearchQuery(v)
  \/ \E q \in legacy.searchTimer : LegacySearchTimerFire(q)
  \/ \E r \in LegacyRequests : \E data \in LegacySearchReplies : LegacySearchOk(r, data)
  \/ \E r \in LegacyRequests : LegacySearchFailed(r)
  \/ \E m \in Movies : SetSelectedMovie(m)
  \/ LegacyClose
  \/ \E rating \in Scores : HandleRating(rating)
  \/ \E r \in LegacyRequests : RatingOk(r)
  \/ \E r \in LegacyRequests : RatingFailed(r)
  \/ RefreshTimerFire
  \/ \E r \in LegacyRequests : \E data \in LegacyRecsReplies : RefreshOk(r, data)
  \/ \E r \in LegacyRequests : RefreshFailed(r)

----------------------------------------------------------------------------

Requests == BagToSet(inflight)
Batches  == BagToSet(loads)

\* A render with any values of the state the view is computed from
ViewQueries  == Queries
ViewSearches == {<<>>, << Mv(1, << "M" >>, NoGenre, 1) >>}
ViewGenres   == Genres \cup {NoGenre}
ViewListings == {<<>>, << Mv(2, <<>>, "Action", 1) >>}

Render(q, sr, g, gr, l) ==
  Assign([Cur EXCEPT !.searchQuery = q, !.searchResults = sr,
                     !.selectedGenre = g, !.genreResults = gr,
                     !.isLoading = l])

ViewNext ==
  \/ \E q \in ViewQueries, sr \in ViewSearches, g \in ViewGenres,
        gr \in ViewListings, l \in BOOLEAN : Render(q, sr, g, gr, l)

\* Any ratings response: duplicates of a movie in any order
RatingEntries == [movie_id : Movies, score : Scores]
RatingSeqs    == UNION {[1..n -> RatingEntries] : n \in 0..MaxRatings}

\* the try-block of fetchInitialData with ratingsResponse.data = seq
RatingsLoaded(seq) ==
  Commit(applyInitialData(Cur, recommendations, seq, watchlist, user))

\* The handlers called whatever the page shows: the props handed to the
\* children are plain functions, and each one tests the token itself
RateCall(m, sc) ==
  /\ Load < MaxInflight
  /\ Commit(handleRateMovie(Cur, m, sc))

AddCall(m) ==
  /\ Load < MaxInflight
  /\ Len(watchlist) + pendingAdds < MaxWatchlist
  /\ Commit(handleAddToWatchlist(Cur, m))

RemoveCall(m) ==
  /\ Load < MaxInflight
  /\ Commit(handleRemoveFromWatchlist(Cur, m))

SearchCall(v) ==
  /\ v # searchQuery
  /\ Commit(handleSearchChange(Cur, v))

GenreCall(g) ==
  /\ Load < MaxInflight
  /\ Commit(handleGenreSelect(Cur, g))

CallNext ==
  \/ \E m \in Movies, sc \in Scores : RateCall(m, sc)
  \/ \E m \in Movies : AddCall(m)
  \/ \E m \in Movies : RemoveCall(m)
  \/ \E v \in Queries : SearchCall(v)
  \/ \E g \in Genres : GenreCall(g)

\* login, logout, reload
LoginNext ==
  \/ Reload
  \/ HandleLogin
  \/ \E r \in Requests, t \in Tokens : LoginOk(r, t)
  \/ \E r \in Requests, d \in Details : LoginFailed(r, d)
  \/ HandleLogout

\* the register page
RegisterNext ==
  \/ NavigateRegister
  \/ NavigateLogin
  \/ \E pw \in PasswordLengths : HandleRegister(pw)
  \/ \E r \in Requests : RegisterOk(r)
  \/ \E r \in Requests, d \in Details : RegisterFailed(r, d)

\* the responses of the initial load
LoadNext ==
  \/ \E b \in Batches, e \in Endpoints : LoadOk(b, e)
  \/ \E b \in Batches, e \in Endpoints, st \in Failures : LoadFailed(b, e, st)

\* search box and genre buttons
BrowseNext ==
  \/ \E v \in Queries : HandleSearchChange(v)
  \/ \E q \in searchTimer : SearchTimerFire(q)
  \/ \E r \in Requests : \E data \in SearchReplies(r.q, r.auth) : SearchOk(r, data)
  \/ \E r \in Requests, st \in Failures : SearchFailed(r, st)
  \/ \E g \in Genres : HandleGenreSelect(g)
  \/ ClearFilter
  \/ \E r \in Requests : \E data \in GenreReplies(r.genre, r.auth) : GenreOk(r, data)
  \/ \E r \in Requests, st \in Failures : GenreFailed(r, st)

\* rating
RateNext ==
  \/ \E m \in Movies, sc \in Scores : HandleRateMovie(m, sc)
  \/ \E r \in Requests : RateOk(r)
  \/ \E r \in Requests, st \in Failures, d \in Details : RateFailed(r, st, d)

\* watchlist
WatchlistNext ==
  \/ \E m \in Movies : HandleAddToWatchlist(m)
  \/ \E r \in Requests : AddOk(r)
  \/ \E r \in Requests, st \in Failures, d \in Details : AddFailed(r, st, d)
  \/ \E m \in Movies : HandleRemoveFromWatchlist(m)
  \/ \E r \in Requests : RemoveOk(r)
  \/ \E r \in Requests, st \in Failures, d \in Details : RemoveFailed(r, st, d)

\* rating and watchlist
MutateNext == RateNext \/ WatchlistNext

\* what follows a search or genre call: the debounce timer and the responses
BrowseSettle ==
  \/ \E q \in searchTimer : SearchTimerFire(q)
  \/ \E r \in Requests : \E data \in SearchReplies(r.q, r.auth) : SearchOk(r, data)
  \/ \E r \in Requests, st \in Failures : SearchFailed(r, st)
  \/ \E r \in Requests : \E data \in GenreReplies(r.genre, r.auth) : GenreOk(r, data)
  \/ \E r \in Requests, st \in Failures : GenreFailed(r, st)

\* what follows a rate, add or remove call: the responses
MutateSettle ==
  \/ \E r \in Requests : RateOk(r)
  \/ \E r \in Requests, st \in Failures, d \in Details : RateFailed(r, st, d)
  \/ \E r \in Requests : AddOk(r)
  \/ \E r \in Requests, st \in Failures, d \in Details : AddFailed(r, st, d)
  \/ \E r \in Requests : RemoveOk(r)
  \/ \E r \in Requests, st \in Failures, d \in Details : RemoveFailed(r, st, d)

Next ==
  LoginNext \/ RegisterNext \/ LoadNext \/ BrowseNext \/ MutateNext \/ MessageTimerFire

\* The whole client
Spec == Init /\ [][Next]_vars

\* The session: login, register, logout, reload and the initial load
SpecSession ==
  Init /\ [][LoginNext \/ RegisterNext \/ LoadNext \/ MessageTimerFire]_vars

\* Search and genre, from a loaded session until it ends
SpecBrowse ==
  InitLoaded /\ [][HandleLogout \/ BrowseNext \/ MessageTimerFire]_vars

\* Rating and watchlist, from a mount (its initial load under way) until the
\* session ends or the page is reloaded
SpecMutate ==
  Init /\ [][Reload \/ HandleLogout \/ LoadNext \/ MutateNext \/ MessageTimerFire]_vars

\* Every handler called directly, one call at a time, with and without a
\* session; timers and responses settle in any order
SpecCalls ==
  (StateIs(Mounted(NULL)) \/ InitLoaded)
    /\ [][HandleLogout \/ (Load = 0 /\ CallNext) \/ BrowseSettle \/ MutateSettle
            \/ MessageTimerFire]_vars

\* The pure computations of a render, on every input
SpecView == InitLoaded /\ [][ViewNext]_vars

\* The initial load, its ratings response being any sequence of entries
RatingsNext ==
  \/ \E seq \in RatingSeqs : RatingsLoaded(seq)
  \/ LoadNext
  \/ HandleLogout

SpecRatings == Init /\ [][RatingsNext]_vars

\* The earlier client, from its mount
SpecLegacy == StateIs(Mounted(NULL)) /\ [][LegacyNext]_vars

\* Rate calls of a loaded session, every one of them accepted by the server
RateOrderNext ==
  \/ \E m \in Movies, sc \in Scores : RateInOrder(m, sc)
  \/ \E r \in Requests : RateOk(r)
  \/ MessageTimerFire

SpecRateOrder == InitLoaded /\ [][RateOrderNext]_vars

\* what the user does on the session pages and with the search box and the
\* genre buttons
UserNext ==
  \/ Reload
  \/ HandleLogin
  \/ HandleLogout
  \/ NavigateRegister
  \/ NavigateLogin
  \/ \E pw \in PasswordLengths : HandleRegister(pw)
  \/ \E v \in Queries : HandleSearchChange(v)
  \/ \E g \in Genres : HandleGenreSelect(g)
  \/ ClearFilter

\* what happens without the user: the responses of login, register and the
\* initial load, the debounce timer, the search and genre responses, the
\* message timer
SettleNext ==
  \/ \E r \in Requests, t \in Tokens : LoginOk(r, t)
  \/ \E r \in Requests, d \in Details : LoginFailed(r, d)
  \/ \E r \in Requests : RegisterOk(r)
  \/ \E r \in Requests, d \in Details : RegisterFailed(r, d)
  \/ LoadNext
  \/ BrowseSettle
  \/ MessageTimerFire

\* the user gives no more input from here on
UserStops ==
  /\ ~userDone
  /\ userDone' = TRUE
  /\ UNCHANGED << ls, token, user, page, recommendations, userRatings, watchlist,
                  watchlistIds, searchQuery, searchResults, selectedGenre,
                  genreResults, isLoading, message, searchTimer, msgTimers,
                  inflight, loads, legacy, lastRated >>

\* The user gives input, the debounce timer running beside, and then stops;
\* after that the timers fire and the requests are answered
LiveNext ==
  \/ ~userDone /\ UserNext
  \/ ~userDone /\ \E q \in searchTimer : SearchTimerFire(q)
  \/ UserStops
  \/ userDone /\ SettleNext

\* Session and browsing, from a mount without a token or from a loaded
\* session, until the user stops; from then on every timer fires and every
\* request is answered
SpecLive ==
  (StateIs(Mounted(NULL)) \/ StateIs(Loaded(1, << Mv(1, <<>>, NoGenre, 1) >>,
                                            << [movie_id |-> 1, score |-> 1] >>, <<>>)))
    /\ [][LiveNext]_vars /\ WF_vars(userDone /\ SettleNext)

\* The watchlist, from a loaded session until it ends
SpecWatchlist ==
  InitLoaded /\ [][HandleLogout \/ WatchlistNext \/ MessageTimerFire]_vars

----------------------------------------------------------------------------
(* Properties *)

SearchRequests == {r \in Requests : r.kind = "search"}

\* a response of a fetch (initial load, search, genre) is handled
FetchResponse ==
  \/ \E b \in Batches, e \in Endpoints : LoadOk(b, e)
  \/ \E b \in Batches, e \in Endpoints, st \in Failures : LoadFailed(b, e, st)
  \/ \E r \in Requests : \E data \in SearchReplies(r.q, r.auth) : SearchOk(r, data)
  \/ \E r \in Requests, st \in Failures : SearchFailed(r, st)
  \/ \E r \in Requests : \E data \in GenreReplies(r.genre, r.auth) : GenreOk(r, data)
  \/ \E r \in Requests, st \in Failures : GenreFailed(r, st)

\* a 401 response of any authenticated call is handled
UnauthorizedResponse ==
  \/ \E b \in Batches, e \in Endpoints : LoadFailed(b, e, Unauthorized)
  \/ \E r \in Requests : SearchFailed(r, Unauthorized)
  \/ \E r \in Requests : GenreFailed(r, Unauthorized)
  \/ \E r \in Requests, d \in Details : RateFailed(r, Unauthorized, d)
  \/ \E r \in Requests, d \in Details : AddFailed(r, Unauthorized, d)
  \/ \E r \in Requests, d \in Details : RemoveFailed(r, Unauthorized, d)

\* q occurs in the chunks of title
Contains(title, q) ==
  \E i \in 1..(Len(title) + 1) :
    /\ i + Len(q) - 1 <= Len(title)
    /\ SubSeq(title, i, i + Len(q) - 1) = q

\* C1: whenever the token goes from present to absent (explicit logout or a
\* 401), the step leaves userRatings, watchlist, watchlistIds,
\* recommendations, searchResults, genreResults and user empty and no token
\* in memory or in storage.
C1_LogoutClearsEverything ==
  [][(token # NULL /\ token' = NULL) =>
       /\ ls' = NULL
       /\ user' = NULL
       /\ recommendations' = <<>>
       /\ userRatings' = EmptyMap
       /\ watchlist' = <<>>
       /\ watchlistIds' = {}
       /\ searchResults' = <<>>
       /\ genreResults' = <<>>]_vars

\* C2: in every state, watchlistIds is exactly the set of movie ids of the
\* entries of watchlist.
C2_WatchlistPairing == watchlistIds = wlIds(watchlist)

\* C2 witness: an add for movie 2 has settled (the initial load only ever
\* returns movie 1) and nothing is in flight.
C2_Witness ==
  /\ 2 \in wlIds(watchlist)
  /\ 2 \in watchlistIds
  /\ inflight = EmptyBag
  /\ loads = EmptyBag

\* C3: a fetch response handled while no token is held (the session it was
\* sent in has ended) changes none of user, recommendations, userRatings,
\* watchlist, watchlistIds, searchResults, genreResults, page.
C3_LogoutCancelsFetches ==
  [][(token = NULL /\ FetchResponse) =>
       UNCHANGED << user, recommendations, userRatings, watchlist, watchlistIds,
                    searchResults, genreResults, page >>]_vars

\* C4: handling a 401 response of any authenticated call leaves no token in
\* memory and none in storage.
C4_UnauthorizedLogsOut ==
  [][UnauthorizedResponse => (token' = NULL /\ ls' = NULL)]_vars

\* C5: a successful response to a search for a text other than the current
\* one does not replace results that are results for the current text.
C5_StaleSearchDiscarded ==
  [][\A r \in SearchRequests :
       ( /\ r.q # searchQuery
         /\ searchResults # <<>>
         /\ searchResults[1].q = searchQuery
         /\ \E data \in SearchReplies(r.q, r.auth) : SearchOk(r, data) )
       => searchResults' = searchResults]_vars

\* C6: only the timer of the last value of the search text is ever pending,
\* and only with a token and a non-blank text; a change of the text issues no
\* request by itself; the timer that fires issues one request, for the
\* current text, and leaves no timer pending.
C6_Debounce ==
  /\ [](/\ searchTimer \subseteq {searchQuery}
        /\ searchTimer # {} => (token # NULL /\ trim(searchQuery) # <<>>))
  /\ [][(\E v \in Queries : HandleSearchChange(v)) =>
          {r \in BagToSet(inflight') : r.kind = "search"} = SearchRequests]_vars
  /\ [][\A q \in searchTimer : SearchTimerFire(q) =>
          /\ q = searchQuery
          /\ searchTimer' = {}
          /\ inflight' = inflight (+) SetToBag({[Req("search", Cur) EXCEPT !.q = q]})]_vars

\* C6 witness: the text is "Ma", its request is the only search in flight and
\* no timer is pending.
C6_Witness ==
  /\ searchQuery = << "M", "a" >>
  /\ searchTimer = {}
  /\ SearchRequests # {}
  /\ \A r \in SearchRequests : r.q = searchQuery /\ inflight[r] = 1

\* C7: whenever the search text is non-empty, the displayed collection is
\* searchResults and the title contains the text.
C7_SearchViewWins ==
  searchQuery # <<>> =>
    (moviesToDisplay = searchResults /\ Contains(listTitle, searchQuery))

\* C8: the search text is non-empty and a genre is selected never both.
C8_InputsExclusive == ~(searchQuery # <<>> /\ selectedGenre # NoGenre)

\* C9: the step in which a rate call is made with a session active already
\* leaves the score in userRatings.
C9_RatingOptimistic ==
  [][\A m \in Movies, sc \in Scores :
       (token # NULL /\ HandleRateMovie(m, sc)) =>
         (m \in DOMAIN userRatings' /\ userRatings'[m] = sc)]_vars

\* C10: handling a 401 response of any operation leaves the session-expired
\* text as the message.
C10_SessionExpiredMessage ==
  [][UnauthorizedResponse => message'.text = MsgSessionExpired]_vars

\* requests of the authenticated operations that a step puts on the wire
AuthKinds == {"search", "genre", "rate", "add", "remove"}

Issued ==
  {r \in BagToSet(inflight') :
     r.kind \in AuthKinds /\ CopiesIn(r, inflight') > CopiesIn(r, inflight)}

IssuedLoads ==
  {b \in BagToSet(loads') : b.pending = Endpoints /\ CopiesIn(b, loads') > CopiesIn(b, loads)}

\* C11: a step that ends with no token puts no request of an authenticated
\* operation and no initial load on the wire, and no debounce timer is ever
\* pending while there is no token.
C11_NoTokenNoRequest ==
  /\ [](token = NULL => searchTimer = {})
  /\ [][token' = NULL => (Issued = {} /\ IssuedLoads = {})]_vars

\* C11 witness: with no token, a genre was selected, a text typed and a rating
\* attempted, and nothing is on the wire or pending.
C11_Witness ==
  /\ token = NULL
  /\ selectedGenre # NoGenre
  /\ trim(searchQuery) # <<>>
  /\ message.text = MsgLoginToRate
  /\ searchTimer = {}
  /\ inflight = EmptyBag
  /\ loads = EmptyBag

\* C12: a successful add response leaves its movie in watchlistIds and a
\* successful remove response leaves its movie out, whatever else is in
\* flight, so of an add and a remove of one movie the one that settles last
\* decides; and watchlistIds is the set of ids of watchlist in every state.
C12_LastSettledWins ==
  /\ [](watchlistIds = wlIds(watchlist))
  /\ [][\A r \in Requests :
          /\ AddOk(r) => r.movie \in watchlistIds'
          /\ RemoveOk(r) => r.movie \notin watchlistIds']_vars

\* C12 witness: an add and a remove of one movie are in flight together.
C12_Witness ==
  \E a \in Requests, d \in Requests :
    a.kind = "add" /\ d.kind = "remove" /\ a.movie = d.movie

\* the call of handleAddToWatchlist and its successful response
AddIssued == \E m \in Movies : HandleAddToWatchlist(m) \/ AddCall(m)

AddConfirmed ==
  \A r \in Requests :
    AddOk(r) => /\ watchlist' = Append(watchlist, WatchlistEntry(r.movie, r.auth))
                /\ watchlistIds' = watchlistIds \cup {r.movie}

\* C13 as stated: the call leaves watchlist and watchlistIds unchanged, the
\* successful response appends the entry and adds the id in one step, and a
\* failed response of any status leaves both unchanged.
C13_AddConfirmFirst_AnyFailure ==
  [][/\ AddIssued => UNCHANGED << watchlist, watchlistIds >>
     /\ AddConfirmed
     /\ \A r \in Requests, st \in Failures, d \in Details :
          AddFailed(r, st, d) => UNCHANGED << watchlist, watchlistIds >>]_vars

\* C13 amended: as above, but only a failed response other than a 401 leaves
\* both unchanged; a 401 that ends a session empties both (the logout), and a
\* 401 that finds no session leaves both unchanged.
C13_AddConfirmFirst ==
  [][/\ AddIssued => UNCHANGED << watchlist, watchlistIds >>
     /\ AddConfirmed
     /\ \A r \in Requests, d \in Details :
          /\ AddFailed(r, OtherFailure, d) => UNCHANGED << watchlist, watchlistIds >>
          /\ AddFailed(r, Unauthorized, d) =>
               IF token # NULL THEN watchlist' = <<>> /\ watchlistIds' = {}
               ELSE UNCHANGED << watchlist, watchlistIds >>]_vars

\* C13 witness: an add is in flight for a movie that is in neither the list
\* nor the id set, while the list is not empty.
C13_Witness ==
  \E r \in Requests :
    /\ r.kind = "add"
    /\ r.movie \notin watchlistIds
    /\ r.movie \notin wlIds(watchlist)
    /\ watchlist # <<>>

\* C14: a rate call made with no token puts nothing on the wire, leaves
\* userRatings unchanged and leaves an error message surfaced.
C14_RateNeedsSession ==
  [][\A m \in Movies, sc \in Scores :
       (token = NULL /\ RateCall(m, sc)) =>
         /\ UNCHANGED << inflight, loads, userRatings >>
         /\ message'.type = "error"
         /\ message'.text # ""]_vars

\* C14 witness: no token, and the message of the refused rate call is shown
\* with its timer pending.
C14_Witness ==
  /\ token = NULL
  /\ ls = NULL
  /\ message = [type |-> "error", text |-> MsgLoginToRate]
  /\ msgTimers > 0

\* every request that a step puts on the wire, login and register included
Sent == {r \in BagToSet(inflight') : CopiesIn(r, inflight') > CopiesIn(r, inflight)}

\* C15: every request put on the wire carries the token persisted when it is
\* sent, and no header when none is persisted.
C15_BearerIffPersisted ==
  [][/\ \A r \in Sent : r.auth = ls'
     /\ \A b \in IssuedLoads : b.auth = ls']_vars

\* C15 witness: after a logout (the initial load of the ended session is
\* still being answered) a login request is on the wire without a header.
C15_Witness ==
  /\ ls = NULL
  /\ \E b \in Batches : b.auth # NULL
  /\ \E r \in Requests : r.kind = "login" /\ r.auth = NULL

\* C16: a failed login response leaves the server's detail, or the default
\* text when there is none, as the error message, and leaves no token
\* persisted, none in memory and no user, whatever was held before.
C16_FailedLoginClears ==
  [][\A r \in Requests, d \in Details :
       LoginFailed(r, d) =>
         /\ message' = [type |-> "error",
                        text |-> IF d # NoDetail THEN d ELSE MsgInvalidLogin]
         /\ ls' = NULL
         /\ token' = NULL
         /\ user' = NULL]_vars

\* C16 witness: the default text of a failed login is shown and nothing is
\* held, while the initial load of a session that was active is still being
\* answered.
C16_Witness ==
  /\ message = [type |-> "error", text |-> MsgInvalidLogin]
  /\ ls = NULL /\ token = NULL /\ user = NULL
  /\ \E b \in Batches : b.auth # NULL

\* C17: a successful login leaves the returned token persisted and current;
\* the persisted token changes only by a successful login or by being removed;
\* a logout removes it; a restart with a token persisted makes it current and
\* shows the app page; a restart with nothing persisted leaves no token, the
\* login page and nothing on the wire.
C17_TokenRoundTrip ==
  [][/\ \A r \in Requests, t \in Tokens : LoginOk(r, t) => (ls' = t /\ token' = t)
     /\ ls' # ls => (ls' = NULL \/ \E r \in Requests : LoginOk(r, ls'))
     /\ HandleLogout => (ls' = NULL /\ token' = NULL)
     /\ (Reload /\ ls # NULL) =>
          (ls' = ls /\ token' = ls /\ page' = "app" /\ AppShown')
     /\ (Reload /\ ls = NULL) =>
          /\ ls' = NULL /\ token' = NULL
          /\ page' = "login" /\ LoginShown'
          /\ inflight' = EmptyBag /\ loads' = EmptyBag]_vars

\* C17 witness: a login has succeeded: its token is persisted and current,
\* the app page is shown and its initial load is on the wire (isLoading was
\* dropped by handleLogin's finally, which a mount does not do).
C17_Witness ==
  /\ ls # NULL /\ token = ls
  /\ AppShown
  /\ ~isLoading
  /\ loads = SetToBag({[auth |-> ls, pending |-> Endpoints, rejected |-> FALSE]})

\* a failed response, other than a 401, of a rate, add or remove call
MutationFailedOther ==
  \E r \in Requests, d \in Details :
    \/ RateFailed(r, OtherFailure, d)
    \/ AddFailed(r, OtherFailure, d)
    \/ RemoveFailed(r, OtherFailure, d)

\* C18: a failure of rate, add or remove that is not a 401 changes the
\* message (and its timer) and nothing else of the state: the token,
\* persisted and in memory, user, page, recommendations, searchResults and
\* genreResults in particular are unchanged.
C18_MutationFailureFrame ==
  [][MutationFailedOther =>
       UNCHANGED << ls, token, user, page, recommendations, searchResults,
                    genreResults, userRatings, watchlist, watchlistIds,
                    searchQuery, selectedGenre, isLoading, searchTimer, loads >>]_vars

\* C18 witness: the fallback text of a failed add is shown in a session whose
\* recommendations and genre results are still there.
C18_Witness ==
  /\ message = [type |-> "error", text |-> MsgAddFailed]
  /\ token # NULL /\ ls = token /\ user # NULL
  /\ AppShown
  /\ recommendations # <<>>
  /\ genreResults # <<>>

\* the state with the search text emptied
EmptyText == [Cur EXCEPT !.searchQuery = <<>>]

\* C19: while the search text is whitespace only, no debounce timer is
\* pending, searchResults is empty, and the collection and title shown are
\* those the same state would show with an empty text.
C19_BlankIsEmpty ==
  (searchQuery # <<>> /\ trim(searchQuery) = <<>>) =>
    /\ searchTimer = {}
    /\ searchResults = <<>>
    /\ moviesToDisplay = moviesToDisplayOf(EmptyText)
    /\ listTitle = listTitleOf(EmptyText)

\* the titles of the search branches and of the genre branch
SearchTitles == {"Search Results for \"", "No results found for \""}
GenreTitle == "Movies in "

\* C20: with an empty search text the title is never one of the search
\* branches and the collection is genreResults or recommendations; with no
\* genre selected the title is never the genre branch's; and with a non-empty
\* text and non-empty searchResults the collection is searchResults whatever
\* the genre.
C20_ViewExclusion ==
  /\ searchQuery = <<>> =>
       /\ Head(listTitle) \notin SearchTitles
       /\ moviesToDisplay = IF selectedGenre # NoGenre THEN genreResults
                             ELSE recommendations
  /\ selectedGenre = NoGenre => Head(listTitle) # GenreTitle
  /\ (searchQuery # <<>> /\ searchResults # <<>>) => moviesToDisplay = searchResults

\* C20 witness: the text is empty and no genre is selected while late
\* responses have left both searchResults and genreResults non-empty.
C20_Witness ==
  /\ searchQuery = <<>>
  /\ selectedGenre = NoGenre
  /\ searchResults # <<>>
  /\ genreResults # <<>>
  /\ AppShown

\* C21: with a non-empty search text and non-empty searchResults the
\* collection shown is searchResults, under the search-results title,
\* whatever selectedGenre and isLoading are.
C21_SearchResultsShown ==
  (searchQuery # <<>> /\ searchResults # <<>>) =>
    /\ moviesToDisplay = searchResults
    /\ listTitle = << "Search Results for \"" >> \o searchQuery \o << "\"" >>

\* C21 witness: text and searchResults non-empty while a genre is selected,
\* its results are there and the loading flag is set.
C21_Witness ==
  /\ searchQuery # <<>> /\ searchResults # <<>>
  /\ selectedGenre # NoGenre /\ genreResults # <<>>
  /\ recommendations # <<>>
  /\ isLoading

\* C22: every rate call made with a token puts one more POST /ratings/ on
\* the wire, also when the same one is already there, and every successful
\* response leaves its score as the movie's rating; so two calls with the
\* same movie and score issue two requests and leave that score.
C22_RateTwice ==
  [][/\ \A m \in Movies, sc \in Scores :
          (token # NULL /\ (HandleRateMovie(m, sc) \/ RateCall(m, sc))) =>
            inflight' = inflight (+)
              SetToBag({[Req("rate", Cur) EXCEPT !.movie = m, !.score = sc]})
     /\ \A r \in Requests :
          RateOk(r) =>
            /\ DOMAIN userRatings' = DOMAIN userRatings \cup {r.movie}
            /\ userRatings'[r.movie] = r.score
            /\ \A k \in DOMAIN userRatings \ {r.movie} : userRatings'[k] = userRatings[k]]_vars

\* C22 witness: the second of two equal rate calls has succeeded: the score
\* is the movie's rating, the success message is shown twice over (two
\* timers) and nothing is left on the wire.
C22_Witness ==
  /\ 2 \in DOMAIN userRatings /\ userRatings[2] = 2
  /\ message = [type |-> "success", text |-> MsgRated]
  /\ msgTimers = 2
  /\ inflight = EmptyBag /\ loads = EmptyBag
  /\ token # NULL

\* the genre requests on the wire, as a bag
GenreRequests(bag) ==
  [r \in {x \in BagToSet(bag) : x.kind = "genre"} |-> CopiesIn(r, bag)]

\* C23: selecting a genre puts no request on the wire by itself (a request
\* is issued only once the selection has stood for the debounce delay), so a
\* selection that is superseded at once issues none.
C23_GenreDebounced ==
  [][(\E g \in Genres : HandleGenreSelect(g)) =>
       GenreRequests(inflight') = GenreRequests(inflight)]_vars

\* what the initial load produces
LoadedData == << recommendations, userRatings, watchlist, watchlistIds, user >>

\* C24: a successful response of the initial load that is not the last of
\* its four changes none of recommendations, userRatings, watchlist,
\* watchlistIds and user; the last one, whichever endpoint it is from, sets
\* them to values computed from the four replies alone.
C24_LoadOrderIndependent ==
  [][\A b \in Batches, e \in Endpoints :
       LoadOk(b, e) =>
         IF b.rejected \/ b.pending # {e}
         THEN UNCHANGED LoadedData
         ELSE \E recs \in RecsReplies(b.auth), ratings \in RatingsReplies(b.auth),
                 wl \in WatchlistReplies(b.auth) :
                LoadedData' = << recs, ratingsMap(EmptyMap, ratings), wl, wlIds(wl),
                                 ProfileReply(b.auth) >>]_vars

\* C24 witness: an initial load has been applied in a session that is still
\* active, and nothing is pending.
C24_Witness ==
  /\ token # NULL /\ user = token
  /\ recommendations # <<>>
  /\ userRatings # EmptyMap
  /\ watchlist # <<>> /\ watchlistIds # {}
  /\ loads = EmptyBag /\ inflight = EmptyBag
  /\ ~isLoading

\* the last place of movie k in seq
LastOf(seq, k) ==
  CHOOSE i \in DOMAIN seq :
    seq[i].movie_id = k /\ \A j \in DOMAIN seq : j > i => seq[j].movie_id # k

\* C25: applying a ratings response leaves userRatings with exactly the
\* movie ids that occur in it as keys, each mapped to the score of its last
\* occurrence.
C25_RatingsLastWins ==
  [][\A seq \in RatingSeqs :
       RatingsLoaded(seq) =>
         /\ DOMAIN userRatings' = {seq[i].movie_id : i \in DOMAIN seq}
         /\ \A k \in DOMAIN userRatings' : userRatings'[k] = seq[LastOf(seq, k)].score]_vars

\* C25 witness: a response that rates both movies, movie 1 more than once,
\* has been applied (the initial load only ever rates movie 1 with 1).
C25_Witness ==
  /\ DOMAIN userRatings = {1, 2}
  /\ userRatings[1] = 2
  /\ token # NULL

\* a refresh of the earlier client is scheduled or awaits its response
RefreshPending(l) ==
  l.refreshTimers > 0 \/ \E r \in BagToSet(l.inflight) : r.kind = "refresh"

\* C27: in the earlier client, isLoading is unchanged by every step taken
\* from the scheduling of a refresh (the step that schedules it included)
\* until its response, success or failure, has been applied (that step
\* included).
C27_RefreshKeepsLoading ==
  [][RefreshPending(legacy) \/ RefreshPending(legacy')
       => legacy'.isLoading = legacy.isLoading]_vars

\* C27 witness: a refresh was scheduled, sent, and its failure applied, and
\* none is pending any more
C27_Witness ==
  /\ legacy.errorMessage = "Could not fetch recommendations."
  /\ ~RefreshPending(legacy)
  /\ ~legacy.isLoading

\* what the initial load cached
Cached == << recommendations, userRatings, watchlist, watchlistIds >>

\* a step of the search box or of the genre buttons, or a response to a
\* search or genre request other than a 401
BrowseStep ==
  \/ \E v \in Queries : HandleSearchChange(v)
  \/ \E q \in searchTimer : SearchTimerFire(q)
  \/ \E r \in Requests : \E data \in SearchReplies(r.q, r.auth) : SearchOk(r, data)
  \/ \E r \in Requests : SearchFailed(r, OtherFailure)
  \/ \E g \in Genres : HandleGenreSelect(g)
  \/ ClearFilter
  \/ \E r \in Requests : \E data \in GenreReplies(r.genre, r.auth) : GenreOk(r, data)
  \/ \E r \in Requests : GenreFailed(r, OtherFailure)

\* C26: typing in the search box, choosing or clearing a genre, the debounce
\* timer firing, and a search or genre response (success, or a failure other
\* than 401) leave recommendations, userRatings, watchlist and watchlistIds
\* unchanged; and emptying the search box with no genre selected shows the
\* recommendations.
C26_BrowseKeepsCache ==
  [][/\ BrowseStep => UNCHANGED Cached
     /\ HandleSearchChange(<<>>) /\ selectedGenre = NoGenre
          => moviesToDisplay' = recommendations]_vars

\* C26 witness: a search response has been applied and shown while the
\* cached data of the session is all still there
C26_Witness ==
  /\ token # NULL
  /\ searchQuery # <<>> /\ searchResults # <<>>
  /\ recommendations # <<>> /\ userRatings # EmptyMap
  /\ watchlist # <<>> /\ watchlistIds # {}

\* the POST /register/ requests awaiting their response
RegisterRequests(bag) == [r \in {x \in DOMAIN bag : x.kind = "register"} |-> bag[r]]

\* C28: submitting the Register form with a password shorter than 4
\* characters sends no POST /register/ and leaves token, page and isLoading
\* unchanged; and no step of a registration (the submission, its success,
\* its failure) changes the token.
C28_ShortPasswordRejected ==
  [][/\ \A pw \in PasswordLengths :
          pw < MinPassword /\ HandleRegister(pw)
            => /\ RegisterRequests(inflight') = RegisterRequests(inflight)
               /\ UNCHANGED << token, page, isLoading >>
     /\ \A pw \in PasswordLengths : HandleRegister(pw) => UNCHANGED << token, ls >>
     /\ \A r \in Requests : RegisterOk(r) => UNCHANGED << token, ls >>
     /\ \A r \in Requests, d \in Details : RegisterFailed(r, d) => UNCHANGED << token, ls >>]_vars

\* C28 witness: a registration was sent and failed, and the Register form is
\* shown idle again, where a short password is refused
C28_Witness ==
  /\ RegisterShown /\ ~isLoading
  /\ message.type = "error" /\ message.text = MsgRegisterFailed
  /\ token = NULL
  /\ RegisterRequests(inflight) = EmptyBag

\* C29: a 401 response to a request that was sent with another token than
\* the present one (a request of an earlier session) leaves the present token
\* in place.
C29_StaleUnauthorizedHarmless ==
  [][\A b \in Batches, e \in Endpoints :
       LoadFailed(b, e, Unauthorized) /\ token # NULL /\ b.auth # token
         => token' = token /\ ls' = ls]_vars

\* C30: a response of the initial load that was requested with another token
\* than the present one (a request of an earlier session) is not applied:
\* user, recommendations, userRatings, watchlist and watchlistIds keep what
\* they hold.
C30_SessionIsolation ==
  [][\A b \in Batches, e \in Endpoints :
       LoadOk(b, e) /\ token # NULL /\ b.auth # token => UNCHANGED LoadedData]_vars

\* C31: whenever a token is present the page is 'app'.
C31_TokenMeansApp == token # NULL => page = "app"

\* an initial load whose Promise.all is still awaited, or a search or genre
\* request awaiting its response
FetchInFlight ==
  \/ \E b \in Batches : ~b.rejected /\ b.pending # {}
  \/ \E r \in Requests : r.kind \in {"search", "genre"}

\* C32: isLoading is true whenever an initial load, a search fetch or a
\* genre fetch is in flight.
C32_LoadingCoversFetches == FetchInFlight => isLoading

\* C33: once the rate calls for a movie have all succeeded, userRatings
\* holds for it the score of the call issued last.
C33_LastIssuedWins ==
  \A m \in Movies :
    lastRated[m] # 0 /\ ~(\E r \in Requests : r.kind = "rate" /\ r.movie = m)
      => m \in DOMAIN userRatings /\ userRatings[m] = lastRated[m]

\* what a completed initial load sets
LoadTargets == << recommendations, userRatings, watchlist, watchlistIds, user, page >>

\* what the token effect leaves when the token is removed
LoggedOutTargets == << <<>>, EmptyMap, <<>>, {}, NULL, "login" >>

\* C34 as stated: the failure of a request of the initial load, whatever its
\* status, and every later response of that load leave recommendations,
\* userRatings, watchlist, watchlistIds, user and page unchanged.
C34_AllOrNothing_AnyFailure ==
  [][\A b \in Batches, e \in Endpoints :
       /\ \A st \in Failures : LoadFailed(b, e, st) => UNCHANGED LoadTargets
       /\ LoadOk(b, e) /\ b.rejected => UNCHANGED LoadTargets]_vars

\* C34: a load one of whose requests failed applies none of its responses.
\* A failure other than 401, and every response after the first failure,
\* leaves the six cells unchanged; a first failure with 401 leaves them
\* unchanged when no token is in memory and otherwise leaves them as a logout
\* does (empty, page 'login').
C34_AllOrNothing ==
  [][\A b \in Batches, e \in Endpoints :
       /\ LoadFailed(b, e, OtherFailure) => UNCHANGED LoadTargets
       /\ LoadFailed(b, e, Unauthorized) =>
            IF ~b.rejected /\ token # NULL
            THEN LoadTargets' = LoggedOutTargets
            ELSE UNCHANGED LoadTargets
       /\ LoadOk(b, e) /\ b.rejected => UNCHANGED LoadTargets]_vars

\* C34 witness: a load has failed with another status than 401 and is
\* settled, in a session that holds the data of a load that succeeded
C34_Witness ==
  /\ token # NULL /\ loads = EmptyBag
  /\ message.text = MsgLoadFailed
  /\ recommendations # <<>> /\ user # NULL

\* C35: the watchlist holds at most one entry per movie id.
C35_OneEntryPerMovie ==
  \A i, j \in DOMAIN watchlist :
    watchlist[i].movie.id = watchlist[j].movie.id => i = j

\* C36: the token in memory and the token in localStorage are equal, both
\* absent or both the same token, in every state.
C36_TokenMatchesStorage == token = ls

\* C36 witness: a 401 has been handled (the session-expired message is up)
\* and neither memory nor storage holds a token
C36_Witness == message.text = MsgSessionExpired /\ token = NULL /\ ls = NULL

\* C37: if the user stops giving input, then from some point on isLoading is
\* false and stays false.
C37_LoadingEnds == <>userDone => <>[](~isLoading)

\* a rate, add or remove call made from the page
MutationCalled ==
  \/ \E m \in Movies, sc \in Scores : HandleRateMovie(m, sc)
  \/ \E m \in Movies : HandleAddToWatchlist(m)
  \/ \E m \in Movies : HandleRemoveFromWatchlist(m)

\* C38: neither the call of a rate, add or remove nor its failure with a
\* status other than 401 changes userRatings, watchlist or watchlistIds, so
\* a mutation that fails leaves them as they were before the call.
C38_FailedMutationNoPartialUpdate ==
  [][/\ MutationCalled => UNCHANGED << userRatings, watchlist, watchlistIds >>
     /\ \A r \in Requests, d \in Details :
          /\ RateFailed(r, OtherFailure, d) => UNCHANGED << userRatings, watchlist, watchlistIds >>
          /\ AddFailed(r, OtherFailure, d) => UNCHANGED << userRatings, watchlist, watchlistIds >>
          /\ RemoveFailed(r, OtherFailure, d) => UNCHANGED << userRatings, watchlist, watchlistIds >>]_vars

\* C38 witness: a rating has failed with the fallback text, in a session
\* that holds ratings and a watchlist
C38_Witness ==
  /\ message = [type |-> "error", text |-> MsgRateFailed]
  /\ token # NULL
  /\ userRatings # EmptyMap /\ watchlist # <<>> /\ watchlistIds # {}

\* C39: a message timer that fires while a later one is pending is the timer
\* of an earlier message (all run 5 s), so it leaves the message now shown.
C39_EarlierTimerSparesMessage ==
  [][MessageTimerFire /\ msgTimers > 1 => message' = message]_vars

\* C37 witness: the user has stopped, a genre fetch has since been answered,
\* nothing is pending and isLoading is false
C37_Witness ==
  /\ userDone /\ ~isLoading
  /\ inflight = EmptyBag /\ loads = EmptyBag /\ searchTimer = {}
  /\ token # NULL /\ genreResults # <<>>

====
